---- MODULE Spec2Model ----
(***************************************************************************)
(* State-machine model of trello_backup.py: credential loading, the OAuth1 *)
(* handshake, trello_get (429 retry), download_file, export_board,         *)
(* export_csv and main.  Python strings that the program inspects or       *)
(* builds character by character (URLs, names, paths) are sequences of     *)
(* one-character strings; identifiers only compared for equality are TLA+  *)
(* strings.                                                                *)
(***************************************************************************)
EXTENDS Integers, Sequences, FiniteSets, TLC

\* ------------------------------------------------------------------------
\* Bounds of the model
\* ------------------------------------------------------------------------
MaxBoards == 2
MaxRetries == 2
MaxRuns == 2
MaxRetryAfter == 1
\* events of a call kept in the trace when the provider throttles without end
TraceWindow == 6

\* ------------------------------------------------------------------------
\* Program constants
\* ------------------------------------------------------------------------
DEBUG == TRUE
DEBUG_BOARD_ID == "5f67b24e3bf4a71838a837cf"
DefaultRetryAfter == 3
\* CPython's default sys.getrecursionlimit(): the deepest nesting of calls
RecursionLimit == 1000

\* ------------------------------------------------------------------------
\* Strings as character sequences
\* ------------------------------------------------------------------------
Letters ==
  {"a","b","c","d","e","f","g","h","i","j","k","l","m","n","o","p","q","r",
   "s","t","u","v","w","x","y","z","A","B","C","D","E","F","G","H","I","J",
   "K","L","M","N","O","P","Q","R","S","T","U","V","W","X","Y","Z"}
Digits == {"0","1","2","3","4","5","6","7","8","9"}

\* str.isalnum() on one character
isalnum(c) == c \in Letters \cup Digits

\* "sub in s" on Python strings
Contains(s, sub) ==
  \E i \in 1..(Len(s) - Len(sub) + 1) : SubSeq(s, i, i + Len(sub) - 1) = sub

\* smallest index of s holding a character of set cs, Len(s)+1 when none
FirstOf(s, cs) ==
  IF \E i \in 1..Len(s) : s[i] \in cs
  THEN CHOOSE i \in 1..Len(s) : s[i] \in cs /\ \A j \in 1..(i-1) : s[j] \notin cs
  ELSE Len(s) + 1

\* s.split(sep) for a one-character separator
RECURSIVE Split(_, _)
Split(s, sep) ==
  LET i == FirstOf(s, {sep}) IN
  IF i > Len(s) THEN <<s>>
  ELSE <<SubSeq(s, 1, i - 1)>> \o Split(SubSeq(s, i + 1, Len(s)), sep)

\* sep.join(parts)
RECURSIVE Join(_, _)
Join(parts, sep) ==
  IF parts = <<>> THEN <<>>
  ELSE IF Len(parts) = 1 THEN parts[1]
  ELSE parts[1] \o sep \o Join(Tail(parts), sep)

\* urllib.parse.urlparse(url): scheme up to the first ':', netloc after '//'
\* up to the first of '/', '?', '#', path up to the first of '?', '#'
urlparse(url) ==
  LET c == FirstOf(url, {":"})
      hasScheme == c > 1 /\ c <= Len(url)
                   /\ \A j \in 1..(c-1) : isalnum(url[j]) \/ url[j] \in {"+", "-", "."}
      rest == IF hasScheme THEN SubSeq(url, c + 1, Len(url)) ELSE url
      hasNet == Len(rest) >= 2 /\ SubSeq(rest, 1, 2) = <<"/", "/">>
      afterSl == IF hasNet THEN SubSeq(rest, 3, Len(rest)) ELSE rest
      d == FirstOf(afterSl, {"/", "?", "#"})
      netloc == IF hasNet THEN SubSeq(afterSl, 1, d - 1) ELSE <<>>
      tail == IF hasNet THEN SubSeq(afterSl, d, Len(afterSl)) ELSE rest
      q == FirstOf(tail, {"?", "#"})
  IN [scheme |-> IF hasScheme THEN SubSeq(url, 1, c - 1) ELSE <<>>,
      netloc |-> netloc,
      path |-> SubSeq(tail, 1, q - 1)]

\* string literals of the program
s_trello_com == <<"t","r","e","l","l","o",".","c","o","m">>
s_cards_seg == <<"/","c","a","r","d","s","/">>
s_attachments == <<"a","t","t","a","c","h","m","e","n","t","s">>
s_unknown == <<"u","n","k","n","o","w","n">>
s_board_ == <<"b","o","a","r","d","_">>
s_json == <<".","j","s","o","n">>
s_https == <<"h","t","t","p","s",":","/","/">>

\* ------------------------------------------------------------------------
\* Pure helpers of export_board
\* ------------------------------------------------------------------------
\* slug = "".join(c if c.isalnum() else "_" for c in board_name)
Slug(board_name) ==
  [i \in 1..Len(board_name) |->
     IF isalnum(board_name[i]) THEN board_name[i] ELSE "_"]

\* safe_name = ''.join(ch if ch.isalnum() or ch in '._-' else '_' ...)
SafeName(filename) ==
  [i \in 1..Len(filename) |->
     IF isalnum(filename[i]) \/ filename[i] \in {".", "_", "-"}
     THEN filename[i] ELSE "_"]

\* is_trello_card_image(att)
is_trello_card_image(att) ==
  /\ att.url # <<>>
  /\ Contains(att.url, s_trello_com)
  /\ Contains(att.url, s_cards_seg)

\* the test of atts_with_urls: att.get('url') and not is_trello_card_image(att)
IsForeignWithUrl(att) == att.url # <<>> /\ ~is_trello_card_image(att)

\* path_parts = urlparse(url).path.split('/')
PathParts(url) == Split(urlparse(url).path, "/")

\* variant: only the ValueError of index() is handled
AttachmentId_noIndexError(url) ==
  LET parts == PathParts(url)
      has == \E i \in 1..Len(parts) : parts[i] = s_attachments
      idx == CHOOSE i \in 1..Len(parts) :
               parts[i] = s_attachments
               /\ \A j \in 1..(i-1) : parts[j] # s_attachments
  IN IF has THEN (IF idx + 1 <= Len(parts) THEN parts[idx + 1] ELSE <<>>)
     ELSE s_unknown

\* attachment id: the part after the first 'attachments' part, else 'unknown'
AttachmentId(url) ==
  LET parts == PathParts(url)
      has == \E i \in 1..Len(parts) : parts[i] = s_attachments
      idx == CHOOSE i \in 1..Len(parts) :
               parts[i] = s_attachments
               /\ \A j \in 1..(i-1) : parts[j] # s_attachments
  IN IF has /\ idx + 1 <= Len(parts) THEN parts[idx + 1] ELSE s_unknown

\* pathlib: p / name (an empty or '.' component adds nothing)
PathJoin(p, name) ==
  IF name = <<>> \/ name = <<".">> THEN p ELSE Append(p, name)

\* str(path)
PathStr(p) == IF p = <<>> THEN <<".">> ELSE Join(p, <<"/">>)

\* board_dir = Path(slug)
BoardDir(slug) == PathJoin(<<>>, slug)

\* attachments_dir = board_dir / "attachments"
AttachmentsDir(slug) == PathJoin(BoardDir(slug), s_attachments)

\* att_dir = attachments_dir / f"{card_id}_{attachment_id}"
AttDir(slug, card_id, url) ==
  PathJoin(AttachmentsDir(slug), card_id \o <<"_">> \o AttachmentId(url))

\* filename = att.get('name') or path_parts[-1]
FileName(att) ==
  IF att.name # <<>> THEN att.name
  ELSE LET parts == PathParts(att.url) IN parts[Len(parts)]

\* dest = att_dir / safe_name
Dest(slug, card_id, att) ==
  PathJoin(AttDir(slug, card_id, att.url), SafeName(FileName(att)))

\* variant: the file name is built from the slug alone
OutJson_slugOnly(slug, board_id) ==
  PathJoin(BoardDir(slug), s_board_ \o slug \o s_json)

\* out_json = board_dir / f"board_{slug}_{board_id}.json"
OutJson(slug, board_id) ==
  PathJoin(BoardDir(slug), s_board_ \o slug \o <<"_">> \o board_id \o s_json)

\* ------------------------------------------------------------------------
\* The provider's content: a pool of boards with their nested payloads
\* ------------------------------------------------------------------------
AttNative ==
  [url |-> s_https \o s_trello_com \o <<"/","1">> \o s_cards_seg \o <<"c","/">>
           \o s_attachments \o <<"/","X","/","p",".","g">>,
   name |-> <<"p"," ","g">>]
AttForeign == [url |-> s_https \o <<"e",".","i","o","/","f">>, name |-> <<"f">>]
AttEvil ==
  [url |-> s_https \o <<"e",".","i","o","/">> \o s_trello_com \o s_cards_seg \o <<"x">>,
   name |-> <<"x">>]
AttNoSeg ==
  [url |-> s_https \o s_trello_com \o <<"/","1">> \o s_cards_seg \o <<"h","/","q">>,
   name |-> <<>>]

\* native URLs whose path ends with the 'attachments' segment, with and
\* without a trailing '/'
AttLastSeg ==
  [url |-> s_https \o s_trello_com \o <<"/","1">> \o s_cards_seg \o <<"h","/">>
           \o s_attachments,
   name |-> <<"q">>]
AttTrailing ==
  [url |-> s_https \o s_trello_com \o <<"/","1">> \o s_cards_seg \o <<"h","/">>
           \o s_attachments \o <<"/">>,
   name |-> <<"t">>]

NewCard(id, idList, name, attachments) ==
  [id |-> id, idList |-> idList, name |-> name, desc |-> <<>>,
   attachments |-> attachments,
   has_local_attachments |-> FALSE, local_attachments |-> <<>>]

CardA == NewCard(<<"c">>, DEBUG_BOARD_ID, <<"k">>, <<AttNative, AttForeign>>)
CardB == NewCard(<<"d">>, "L2", <<"m">>, <<AttForeign>>)
CardC == NewCard(<<"e">>, DEBUG_BOARD_ID, <<"n">>, <<>>)
CardD == NewCard(<<"f">>, DEBUG_BOARD_ID, <<"o">>, <<AttEvil>>)
CardE == NewCard(<<"h">>, DEBUG_BOARD_ID, <<"r">>,
                 <<AttNoSeg, AttLastSeg, AttTrailing, AttNative>>)

ListsOfBoards == <<[id |-> DEBUG_BOARD_ID, name |-> <<"T">>], [id |-> "L2", name |-> <<"U">>]>>

\* entries of GET /members/me/boards
BoardPoolSeq ==
  << [id |-> <<"1">>, name |-> <<"A"," ","b">>, closed |-> FALSE],
     [id |-> <<"2">>, name |-> <<"A","_","b">>, closed |-> FALSE],
     [id |-> <<"3">>, name |-> <<"C">>, closed |-> TRUE],
     [id |-> <<"4">>, name |-> <<"D">>, closed |-> FALSE] >>
BoardPool == { BoardPoolSeq[i] : i \in 1..Len(BoardPoolSeq) }

\* body of GET /boards/{id} with nested lists and cards
BoardPayload(b) ==
  [id |-> b.id, name |-> b.name, closed |-> b.closed, lists |-> ListsOfBoards,
   cards |-> IF b.id = <<"1">> THEN <<CardA, CardB>>
             ELSE IF b.id = <<"2">> THEN <<>>
             ELSE IF b.id = <<"3">> THEN <<CardB>>
             ELSE <<CardC, CardD, CardE>>]

\* body of GET /cards/{id}/attachments
CardAttachmentsPayload(card_id) == <<>>

\* the board listings the provider may return: up to MaxBoards distinct
\* boards of the pool, in the order of the pool
Listings ==
  UNION { { [i \in 1..n |-> BoardPoolSeq[f[i]]] :
              f \in { g \in [1..n -> 1..Len(BoardPoolSeq)] :
                        \A i, j \in 1..n : i < j => g[i] < g[j] } } :
          n \in 0..MaxBoards }

\* ------------------------------------------------------------------------
\* Environment and HTTP
\* ------------------------------------------------------------------------
None == "<None>"
\* Python truthiness of an os.getenv result
Truthy(v) == v # None /\ v # ""

\* what os.getenv may return for the four variables
EnvSet ==
  [TRELLO_KEY : {None, "", "key"}, TRELLO_SECRET : {None, "", "secret"},
   TRELLO_TOKEN : {None, "token"}, TRELLO_TOKEN_SECRET : {None, "tsecret"}]

\* variant: the test joins the two with "and"
MissingConsumerCredentials_and(key, secret) == ~Truthy(key) /\ ~Truthy(secret)

\* lines 31-33: if not CONSUMER_KEY or not CONSUMER_SECRET
MissingConsumerCredentials(key, secret) == ~Truthy(key) \/ ~Truthy(secret)

\* variant: the test joins the two with "and"
NeedsHandshake_and(token, token_secret) == ~Truthy(token) /\ ~Truthy(token_secret)

\* line 39: if not ACCESS_TOKEN or not TOKEN_SECRET
NeedsHandshake(token, token_secret) == ~Truthy(token) \/ ~Truthy(token_secret)

Statuses == {200, 429, 404, 500}
\* the Retry-After header of a 429: absent, or a number of seconds
RetryAfterHeaders == {<<>>} \cup { <<n>> : n \in 1..MaxRetryAfter }

\* variant: server errors are retried like 429
IsRateLimited_5xx(status) == status = 429 \/ status >= 500

\* line 97: resp.status_code == 429
IsRateLimited(status) == status = 429

\* resp.raise_for_status(): raises for 4xx and 5xx
RaisesForStatus(status) == status >= 400 /\ status < 600

\* variant: the header is ignored
RetryDelay_fixed(retry_after) == DefaultRetryAfter

\* line 98: int(resp.headers.get("Retry-After", 3))
RetryDelay(retry_after) ==
  IF retry_after = <<>> THEN DefaultRetryAfter ELSE retry_after[1]

EndpointBoards == [kind |-> "/members/me/boards", id |-> <<>>]
EndpointBoard(board_id) == [kind |-> "/boards/", id |-> board_id]
EndpointCardAttachments(card_id) == [kind |-> "/cards/attachments", id |-> card_id]

ParamsBoards == {<<"fields", "name,closed,dateLastActivity">>}
ParamsBoard ==
  { <<"lists", "all">>, <<"cards", "all">>, <<"checklists", "all">>,
    <<"card_attachments", "true">>, <<"attachment_fields", "name,url">>,
    <<"fields", "name,desc,closed,dateLastActivity">> }
ParamsNone == {}

\* the parameters trello_get passes to its recursive call (**params)
RetryParams(params) == params

\* ------------------------------------------------------------------------
\* State
\* ------------------------------------------------------------------------
VARIABLES
  CONSUMER_KEY, CONSUMER_SECRET,
  world,          \* the board listing the provider returns
  run,            \* number of the current invocation of the script
  pc,             \* position of the program
  exit_status,    \* <<>> while running, <<n>> once the process has exited
  exc,            \* the uncaught exception, "" when none
  ACCESS_TOKEN, TOKEN_SECRET,
  hs,             \* handshake: steps done, request token, verifier, exchange
  nreq,           \* network requests issued in this run
  dirs, files,    \* filesystem under trello_exports (<<>> is the root)
  csv_rows,       \* rows of trello_export.csv, header excluded
  tg,             \* frame of the current trello_get call
  resp,           \* last response received by trello_get
  trace,          \* events of the current call: requests (n = number of the
                  \* request in the run), responses (n = status, h = Retry-After)
                  \* and sleeps (n = seconds)
  tg_outcome,     \* "none" | "pending" | "returned" | "raised"
  ret,            \* value returned by trello_get
  boards, active, bi, all_data,
  board, slug, data, ci,
  atts, atts_with_images, atts_with_urls, ai, dest,
  hist            \* history of the run, read by the properties only

vars ==
  <<CONSUMER_KEY, CONSUMER_SECRET, world, run, pc, exit_status, exc, ACCESS_TOKEN, TOKEN_SECRET, hs,
    nreq, dirs, files, csv_rows, tg, resp, trace, tg_outcome, ret,
    boards, active, bi, all_data, board, slug, data, ci,
    atts, atts_with_images, atts_with_urls, ai, dest, hist>>

envVars == <<CONSUMER_KEY, CONSUMER_SECRET, world, run>>
authVars == <<ACCESS_TOKEN, TOKEN_SECRET, hs>>
fsVars == <<dirs, files, csv_rows>>
tgVars == <<tg, resp, trace, tg_outcome, ret>>
mainVars == <<boards, active, bi, all_data>>
boardVars == <<board, slug, data, ci>>
cardVars == <<atts, atts_with_images, atts_with_urls, ai, dest>>

NoFrame == [endpoint |-> EndpointBoards, params |-> ParamsNone, caller |-> "none", depth |-> 0]
NoResp == [status |-> 0, retry_after |-> <<>>]
NoBoard == [id |-> <<>>, name |-> <<>>, closed |-> FALSE]
NoData == [id |-> <<>>, name |-> <<>>, closed |-> FALSE, lists |-> <<>>, cards |-> <<>>]
NoHs ==
  [env_token |-> None, env_secret |-> None,   \* TRELLO_TOKEN(_SECRET) as read
   steps |-> <<>>,                            \* handshake steps attempted
   resource_owner_key |-> None,               \* request token of step 1
   verifier |-> None,                         \* verifier read in step 2
   exchanged |-> <<>>,                        \* what step 3 was signed with
   rejected |-> ""]                           \* the step the provider rejected

NewHist ==
  [files_at_start |-> {},       \* paths existing when the run started
   dirs_at_start |-> {},
   export_called |-> <<>>,      \* ids of the boards export_board was called on
   fetched |-> {},              \* endpoints requested through trello_get
   board_errors |-> {},         \* ids of boards whose export saw a non-429 HTTP error
   dl_requested |-> {},         \* destinations a download request was issued for
   dl_skipped |-> {},           \* destinations download_file found existing
   dl_failed |-> {},            \* destinations whose download raised
   json_written |-> {},         \* ids of boards whose JSON was written in this run
   csv_written |-> FALSE]

ProgramInit ==
  /\ pc = "load_env"
  /\ CONSUMER_KEY = None /\ CONSUMER_SECRET = None
  /\ exit_status = <<>>
  /\ exc = ""
  /\ ACCESS_TOKEN = None /\ TOKEN_SECRET = None
  /\ hs = NoHs
  /\ nreq = 0
  /\ tg = NoFrame /\ resp = NoResp /\ trace = <<>> /\ tg_outcome = "none" /\ ret = <<>>
  /\ boards = <<>> /\ active = <<>> /\ bi = 0 /\ all_data = <<>>
  /\ board = NoBoard /\ slug = <<>> /\ data = NoData /\ ci = 0
  /\ atts = <<>> /\ atts_with_images = <<>> /\ atts_with_urls = <<>> /\ ai = 0
  /\ dest = <<>>

\* the same values, as the next state of a fresh invocation
ProgramReset ==
  /\ pc' = "load_env"
  /\ CONSUMER_KEY' = None /\ CONSUMER_SECRET' = None
  /\ exit_status' = <<>>
  /\ exc' = ""
  /\ ACCESS_TOKEN' = None /\ TOKEN_SECRET' = None
  /\ hs' = NoHs
  /\ nreq' = 0
  /\ tg' = NoFrame /\ resp' = NoResp /\ trace' = <<>> /\ tg_outcome' = "none" /\ ret' = <<>>
  /\ boards' = <<>> /\ active' = <<>> /\ bi' = 0 /\ all_data' = <<>>
  /\ board' = NoBoard /\ slug' = <<>> /\ data' = NoData /\ ci' = 0
  /\ atts' = <<>> /\ atts_with_images' = <<>> /\ atts_with_urls' = <<>> /\ ai' = 0
  /\ dest' = <<>>

Init ==
  /\ world \in Listings
  /\ run = 1
  /\ dirs = {} /\ files = <<>> /\ csv_rows = <<>>
  /\ hist = NewHist
  /\ ProgramInit

\* an uncaught exception ends the process with a traceback and status 1
Crash(e) ==
  /\ pc' = "crashed"
  /\ exc' = e
  /\ exit_status' = <<1>>

\* ------------------------------------------------------------------------
\* Module top level: credentials and the OAuth1 flow (lines 25-79)
\* ------------------------------------------------------------------------
LoadEnv ==
  /\ pc = "load_env"
  /\ \E env \in EnvSet :
       /\ CONSUMER_KEY' = env.TRELLO_KEY
       /\ CONSUMER_SECRET' = env.TRELLO_SECRET
       /\ IF MissingConsumerCredentials(env.TRELLO_KEY, env.TRELLO_SECRET)
          THEN /\ pc' = "exited" /\ exit_status' = <<1>>
               /\ UNCHANGED <<ACCESS_TOKEN, TOKEN_SECRET, hs>>
          ELSE /\ ACCESS_TOKEN' = env.TRELLO_TOKEN
               /\ TOKEN_SECRET' = env.TRELLO_TOKEN_SECRET
               /\ hs' = [hs EXCEPT !.env_token = env.TRELLO_TOKEN,
                                   !.env_secret = env.TRELLO_TOKEN_SECRET]
               /\ pc' = IF NeedsHandshake(env.TRELLO_TOKEN, env.TRELLO_TOKEN_SECRET)
                        THEN "fetch_request_token" ELSE "main"
               /\ UNCHANGED exit_status
  /\ UNCHANGED <<world, run, exc, nreq, fsVars, tgVars, mainVars, boardVars,
                 cardVars, hist>>

\* variant: the rejection is swallowed and the script goes on to main()
TokenRequestFails_swallowed ==
  /\ pc' = "main"
  /\ UNCHANGED <<exc, exit_status>>

\* lines 46 and 70: the provider rejects, requests_oauthlib raises
\* TokenRequestDenied and nothing catches it
TokenRequestFails == Crash("TokenRequestDenied")

\* lines 63-69: the session of step 3 is built from the request token of
\* step 1 and the verifier of step 2
ExchangeCredentials(h) == <<h.resource_owner_key, h.verifier>>

\* line 46: oauth.fetch_request_token(...), raises when the provider rejects
FetchRequestToken ==
  /\ pc = "fetch_request_token"
  /\ nreq' = nreq + 1
  /\ \E ok \in BOOLEAN :
       IF ok
       THEN /\ hs' = [hs EXCEPT !.steps = Append(@, "request_token"),
                                !.resource_owner_key = "rtoken"]
            /\ pc' = "input_verifier"
            /\ UNCHANGED <<exc, exit_status>>
       ELSE /\ hs' = [hs EXCEPT !.steps = Append(@, "request_token"),
                                !.rejected = "request_token"]
            /\ TokenRequestFails
  /\ UNCHANGED <<envVars, ACCESS_TOKEN, TOKEN_SECRET, fsVars, tgVars, mainVars,
                 boardVars, cardVars, hist>>

\* lines 50-61: print the authorization URL, block on input()
InputVerifier ==
  /\ pc = "input_verifier"
  /\ \E v \in {"pin", "badpin"} :
       hs' = [hs EXCEPT !.steps = Append(@, "verifier"), !.verifier = v]
  /\ pc' = "fetch_access_token"
  /\ UNCHANGED <<envVars, exit_status, exc, ACCESS_TOKEN, TOKEN_SECRET, nreq,
                 fsVars, tgVars, mainVars, boardVars, cardVars, hist>>

\* lines 63-79: oauth.fetch_access_token(...), raises when the provider rejects
FetchAccessToken ==
  /\ pc = "fetch_access_token"
  /\ nreq' = nreq + 1
  /\ \E ok \in BOOLEAN :
       /\ ok => ExchangeCredentials(hs) = <<"rtoken", "pin">>
       /\ IF ok
          THEN /\ hs' = [hs EXCEPT !.steps = Append(@, "access_token"),
                                   !.exchanged = ExchangeCredentials(hs)]
               /\ ACCESS_TOKEN' = "token"
               /\ TOKEN_SECRET' = "tsecret"
               /\ pc' = "main"
               /\ UNCHANGED <<exc, exit_status>>
          ELSE /\ hs' = [hs EXCEPT !.steps = Append(@, "access_token"),
                                   !.exchanged = ExchangeCredentials(hs),
                                   !.rejected = "access_token"]
               /\ TokenRequestFails
               /\ UNCHANGED <<ACCESS_TOKEN, TOKEN_SECRET>>
  /\ UNCHANGED <<envVars, fsVars, tgVars, mainVars, boardVars, cardVars, hist>>

\* ------------------------------------------------------------------------
\* trello_get (lines 92-101)
\* ------------------------------------------------------------------------
\* entering trello_get(endpoint, **params) from a caller
CallTrelloGet(endpoint, params, caller) ==
  /\ tg' = [endpoint |-> endpoint, params |-> params, caller |-> caller, depth |-> 0]
  /\ resp' = NoResp
  /\ trace' = <<>>
  /\ tg_outcome' = "pending"
  /\ ret' = <<>>
  /\ pc' = "trello_get"

\* the JSON body the provider returns for an endpoint
Body(endpoint) ==
  IF endpoint.kind = "/members/me/boards" THEN world
  ELSE IF endpoint.kind = "/boards/"
       THEN BoardPayload(CHOOSE b \in BoardPool : b.id = endpoint.id)
       ELSE CardAttachmentsPayload(endpoint.id)

\* the last k elements of a sequence
Last(s, k) == IF Len(s) <= k THEN s ELSE SubSeq(s, Len(s) - k + 1, Len(s))

\* lines 94-96: sess.get(url, params=params); the provider picks the
\* response, answering 429 to at most cap requests of one call; the trace
\* keeps the last window events of the call
Request(cap, headers, window) ==
  /\ pc = "trello_get"
  /\ nreq' = nreq + 1
  /\ \E st \in Statuses, ra \in headers :
       /\ IsRateLimited(st) => tg.depth < cap
       /\ ~IsRateLimited(st) => ra = <<>>
       /\ resp' = [status |-> st, retry_after |-> ra]
       /\ trace' = Last(trace \o
            << [ev |-> "request", endpoint |-> tg.endpoint, params |-> tg.params,
                n |-> nreq + 1, h |-> <<>>],
               [ev |-> "response", endpoint |-> tg.endpoint, params |-> tg.params,
                n |-> st, h |-> ra] >>, window)
  /\ hist' = [hist EXCEPT !.fetched = @ \cup {tg.endpoint}]
  /\ pc' = "trello_get_response"
  /\ UNCHANGED <<envVars, exit_status, exc, authVars, fsVars, tg, tg_outcome, ret,
                 mainVars, boardVars, cardVars>>

\* a call capped at MaxRetries throttled responses logs at most
\* 3 * MaxRetries + 2 events, so its trace is whole
trello_get_request == Request(MaxRetries, RetryAfterHeaders, 3 * MaxRetries + 2)

\* line 99: every retry is a nested call of trello_get and adds a frame to
\* the interpreter stack; the call cannot be entered once the stack holds
\* RecursionLimit frames (the frames of the callers and of the HTTP library
\* are not counted here, they make it happen somewhat earlier)
RecursionExceeded(depth) == depth + 1 >= RecursionLimit

\* lines 97-99: on 429 sleep, then return trello_get(endpoint, **params)
trello_get_retry ==
  /\ pc = "trello_get_response"
  /\ IsRateLimited(resp.status)
  /\ ~RecursionExceeded(tg.depth)
  /\ trace' = Append(trace, [ev |-> "sleep", endpoint |-> tg.endpoint,
                             params |-> tg.params, n |-> RetryDelay(resp.retry_after),
                             h |-> <<>>])
  /\ tg' = [tg EXCEPT !.params = RetryParams(tg.params), !.depth = @ + 1]
  /\ pc' = "trello_get"
  /\ UNCHANGED <<envVars, exit_status, exc, authVars, nreq, fsVars, resp, tg_outcome,
                 ret, mainVars, boardVars, cardVars, hist>>

\* lines 97-99: on 429 sleep; the nested call then raises RecursionError,
\* which no caller catches
trello_get_recursion_error ==
  /\ pc = "trello_get_response"
  /\ IsRateLimited(resp.status)
  /\ RecursionExceeded(tg.depth)
  /\ trace' = Append(trace, [ev |-> "sleep", endpoint |-> tg.endpoint,
                             params |-> tg.params, n |-> RetryDelay(resp.retry_after),
                             h |-> <<>>])
  /\ tg_outcome' = "raised"
  /\ Crash("RecursionError")
  /\ UNCHANGED <<envVars, authVars, nreq, fsVars, tg, resp, ret,
                 mainVars, boardVars, cardVars, hist>>

\* line 100: raise_for_status() raises HTTPError; no caller catches it
trello_get_raise ==
  /\ pc = "trello_get_response"
  /\ ~IsRateLimited(resp.status)
  /\ RaisesForStatus(resp.status)
  /\ tg_outcome' = "raised"
  /\ hist' = IF tg.caller = "main" THEN hist
             ELSE [hist EXCEPT !.board_errors = @ \cup {board.id}]
  /\ Crash("HTTPError")
  /\ UNCHANGED <<envVars, authVars, nreq, fsVars, tg, resp, trace, ret,
                 mainVars, boardVars, cardVars>>

\* line 101: return resp.json()
trello_get_return ==
  /\ pc = "trello_get_response"
  /\ ~IsRateLimited(resp.status)
  /\ ~RaisesForStatus(resp.status)
  /\ tg_outcome' = "returned"
  /\ ret' = Body(tg.endpoint)
  /\ pc' = IF tg.caller = "main" THEN "main_boards"
           ELSE IF tg.caller = "export_board" THEN "export_board_cards"
           ELSE "card_atts"
  /\ UNCHANGED <<envVars, exit_status, exc, authVars, nreq, fsVars, tg, resp, trace,
                 mainVars, boardVars, cardVars, hist>>

\* ------------------------------------------------------------------------
\* Filesystem helpers
\* ------------------------------------------------------------------------
\* Path.exists()
Exists(p, ds, fs) == p \in ds \/ p \in DOMAIN fs

\* all ancestors of a path and the path itself: mkdir(parents=True)
WithParents(p) == { SubSeq(p, 1, n) : n \in 0..Len(p) }

\* open(p, "w"/"wb") succeeds when the parent directory exists
CanOpenForWrite(p, ds) == p # <<>> /\ SubSeq(p, 1, Len(p) - 1) \in ds

WriteFile(fs, p, content) ==
  [q \in DOMAIN fs \cup {p} |-> IF q = p THEN content ELSE fs[q]]

\* ------------------------------------------------------------------------
\* main (lines 215-230)
\* ------------------------------------------------------------------------
\* line 221: active = [b for b in boards if not b.get("closed")]
IsActive(b) == ~b.closed
ActiveBoards(bs) == SelectSeq(bs, IsActive)

\* lines 216-220: create and enter trello_exports, list the boards
main_start ==
  /\ pc = "main"
  /\ dirs' = dirs \cup {<<>>}
  /\ CallTrelloGet(EndpointBoards, ParamsBoards, "main")
  /\ UNCHANGED <<envVars, exit_status, exc, authVars, nreq, files, csv_rows,
                 mainVars, boardVars, cardVars, hist>>

\* lines 220-224: boards returned, keep the active ones
main_boards ==
  /\ pc = "main_boards"
  /\ boards' = ret
  /\ active' = ActiveBoards(ret)
  /\ bi' = 1
  /\ all_data' = <<>>
  /\ trace' = <<>> /\ tg_outcome' = "none"
  /\ pc' = "main_loop"
  /\ UNCHANGED <<envVars, exit_status, exc, authVars, nreq, fsVars, tg, resp, ret,
                 boardVars, cardVars, hist>>

\* lines 225-226 and 116-129: export_board(b) starts and fetches the board
export_board_start ==
  /\ pc = "main_loop"
  /\ bi <= Len(active)
  /\ board' = active[bi]
  /\ slug' = Slug(active[bi].name)
  /\ data' = NoData
  /\ ci' = 0
  /\ hist' = [hist EXCEPT !.export_called = Append(@, active[bi].id)]
  /\ CallTrelloGet(EndpointBoard(active[bi].id), ParamsBoard, "export_board")
  /\ UNCHANGED <<envVars, exit_status, exc, authVars, nreq, fsVars, mainVars, cardVars>>

\* line 122: data = trello_get(...) returned
export_board_cards ==
  /\ pc = "export_board_cards"
  /\ data' = ret
  /\ ci' = 1
  /\ trace' = <<>> /\ tg_outcome' = "none"
  /\ pc' = "card_loop"
  /\ UNCHANGED <<envVars, exit_status, exc, authVars, nreq, fsVars, tg, resp, ret,
                 mainVars, board, slug, cardVars, hist>>

\* line 133: if DEBUG and card.get('idList') != DEBUG_BOARD_ID: continue
SkippedByDebug(card) == DEBUG /\ card.idList # DEBUG_BOARD_ID

\* lines 142-151 and 153-154: classify the attachments of card ci, record the
\* foreign URLs, and either go to the next card or prepare the downloads
Classify(card_atts) ==
  LET images == SelectSeq(card_atts, is_trello_card_image)
      urls == SelectSeq(card_atts, IsForeignWithUrl)
  IN /\ atts' = card_atts
     /\ atts_with_images' = images
     /\ atts_with_urls' = urls
     /\ data' = IF urls # <<>>
                THEN [data EXCEPT !.cards[ci].has_local_attachments = TRUE,
                                  !.cards[ci].local_attachments =
                                     [i \in 1..Len(urls) |-> urls[i].url]]
                ELSE data
     /\ IF images = <<>>
        THEN /\ ci' = ci + 1
             /\ ai' = 0
             /\ pc' = "card_loop"
             /\ dirs' = dirs
        ELSE /\ ci' = ci
             /\ ai' = 1
             /\ pc' = "att_loop"
             /\ dirs' = dirs \cup WithParents(AttachmentsDir(slug))

\* lines 132-134: a card the DEBUG filter skips
card_skip ==
  /\ pc = "card_loop"
  /\ ci <= Len(data.cards)
  /\ SkippedByDebug(data.cards[ci])
  /\ ci' = ci + 1
  /\ UNCHANGED <<envVars, pc, exit_status, exc, authVars, nreq, fsVars, tgVars,
                 mainVars, board, slug, data, cardVars, hist>>

\* lines 135-154: a card whose payload carries attachments
card_classify ==
  /\ pc = "card_loop"
  /\ ci <= Len(data.cards)
  /\ ~SkippedByDebug(data.cards[ci])
  /\ data.cards[ci].attachments # <<>>
  /\ Classify(data.cards[ci].attachments)
  /\ UNCHANGED <<envVars, exit_status, exc, authVars, nreq, files, csv_rows, tgVars,
                 mainVars, board, slug, dest, hist>>

\* line 135: empty attachment list, fall back to GET /cards/{id}/attachments
card_fallback ==
  /\ pc = "card_loop"
  /\ ci <= Len(data.cards)
  /\ ~SkippedByDebug(data.cards[ci])
  /\ data.cards[ci].attachments = <<>>
  /\ CallTrelloGet(EndpointCardAttachments(data.cards[ci].id), ParamsNone, "card")
  /\ UNCHANGED <<envVars, exit_status, exc, authVars, nreq, fsVars, mainVars,
                 boardVars, cardVars, hist>>

\* lines 135-154 after the fallback fetch returned
card_atts ==
  /\ pc = "card_atts"
  /\ Classify(ret)
  /\ trace' = <<>> /\ tg_outcome' = "none"
  /\ UNCHANGED <<envVars, exit_status, exc, authVars, nreq, files, csv_rows,
                 tg, resp, ret, mainVars, board, slug, dest, hist>>

\* lines 156-173: next native attachment: make its directory, derive dest
att_prepare ==
  /\ pc = "att_loop"
  /\ ai <= Len(atts_with_images)
  /\ dirs' = dirs \cup {AttDir(slug, data.cards[ci].id, atts_with_images[ai].url)}
  /\ dest' = Dest(slug, data.cards[ci].id, atts_with_images[ai])
  /\ pc' = "download_file"
  /\ UNCHANGED <<envVars, exit_status, exc, authVars, nreq, files, csv_rows, tgVars,
                 mainVars, boardVars, atts, atts_with_images, atts_with_urls, ai, hist>>

\* line 156: the attachments of the card are exhausted
att_done ==
  /\ pc = "att_loop"
  /\ ai > Len(atts_with_images)
  /\ ci' = ci + 1
  /\ pc' = "card_loop"
  /\ UNCHANGED <<envVars, exit_status, exc, authVars, nreq, fsVars, tgVars,
                 mainVars, board, slug, data, cardVars, hist>>

\* line 176: card.setdefault('local_attachments', []).append(f"{dest}")
RecordLocal(d) ==
  [data EXCEPT !.cards[ci].has_local_attachments = TRUE,
               !.cards[ci].local_attachments = Append(@, PathStr(d))]

\* variant: the existence test is missing
DestExists_never(d, ds, fs) == FALSE

\* line 106: if dest.exists(): return
DestExists(d, ds, fs) == Exists(d, ds, fs)

\* lines 106-107 and 176: download_file returns at once, the path is recorded
download_file_exists ==
  /\ pc = "download_file"
  /\ DestExists(dest, dirs, files)
  /\ data' = RecordLocal(dest)
  /\ ai' = ai + 1
  /\ pc' = "att_loop"
  /\ hist' = [hist EXCEPT !.dl_skipped = @ \cup {dest}]
  /\ UNCHANGED <<envVars, exit_status, exc, authVars, nreq, fsVars, tgVars,
                 mainVars, board, slug, ci, atts, atts_with_images, atts_with_urls,
                 dest>>

\* lines 108-113 and 176: authenticated streaming GET; the request may be
\* answered with an error status, or the stream may break while writing
download_file_get ==
  /\ pc = "download_file"
  /\ ~DestExists(dest, dirs, files)
  /\ nreq' = nreq + 1
  /\ \E outcome \in {"ok", "http_error", "stream_error"} :
       /\ files' = IF outcome = "ok" THEN WriteFile(files, dest, "complete")
                   ELSE IF outcome = "stream_error" THEN WriteFile(files, dest, "partial")
                   ELSE files
       /\ IF outcome = "ok"
          THEN /\ data' = RecordLocal(dest)
               /\ ai' = ai + 1
               /\ pc' = "att_loop"
               /\ hist' = [hist EXCEPT !.dl_requested = @ \cup {dest}]
          ELSE /\ data' = data
               /\ ai' = ai
               /\ pc' = "download_except"
               /\ hist' = [hist EXCEPT !.dl_requested = @ \cup {dest},
                                       !.dl_failed = @ \cup {dest}]
  /\ UNCHANGED <<envVars, exit_status, exc, authVars, dirs, csv_rows, tgVars,
                 mainVars, board, slug, ci, atts, atts_with_images, atts_with_urls,
                 dest>>

\* lines 177-187: the handler prints the warning and then calls the value
\* print returned (None), which raises TypeError out of export_board
download_except ==
  /\ pc = "download_except"
  /\ Crash("TypeError")
  /\ UNCHANGED <<envVars, authVars, nreq, fsVars, tgVars, mainVars, boardVars,
                 cardVars, hist>>

\* lines 189-195 and 227: write the board's JSON, return (data, board_name)
export_board_write_json ==
  /\ pc = "card_loop"
  /\ ci > Len(data.cards)
  /\ IF CanOpenForWrite(OutJson(slug, board.id), dirs)
     THEN /\ files' = WriteFile(files, OutJson(slug, board.id), board.id)
          /\ all_data' = Append(all_data, <<data, board.name>>)
          /\ bi' = bi + 1
          /\ pc' = "main_loop"
          /\ hist' = [hist EXCEPT !.json_written = @ \cup {board.id}]
          /\ UNCHANGED <<exc, exit_status>>
     ELSE /\ Crash("FileNotFoundError")
          /\ UNCHANGED <<files, all_data, bi, hist>>
  /\ UNCHANGED <<envVars, authVars, nreq, dirs, csv_rows, tgVars, boards, active,
                 boardVars, cardVars>>

\* ------------------------------------------------------------------------
\* export_csv (lines 198-212)
\* ------------------------------------------------------------------------
\* lists.get(card['idList'], '')
ListName(d, idList) ==
  IF \E i \in 1..Len(d.lists) : d.lists[i].id = idList
  THEN d.lists[CHOOSE i \in 1..Len(d.lists) : d.lists[i].id = idList].name
  ELSE <<>>

\* variant: the attachment references are joined with ','
CsvRow_comma(d, board_name, card) ==
  [board |-> board_name, list |-> ListName(d, card.idList), item |-> card.name,
   description |-> card.desc,
   attachments |-> Join(card.local_attachments, <<",">>)]

\* one writer.writerow per card
CsvRow(d, board_name, card) ==
  [board |-> board_name, list |-> ListName(d, card.idList), item |-> card.name,
   description |-> card.desc,
   attachments |-> Join(card.local_attachments, <<";">>)]

RECURSIVE CsvRows(_)
CsvRows(all_boards) ==
  IF all_boards = <<>> THEN <<>>
  ELSE LET d == Head(all_boards)[1]
           n == Head(all_boards)[2]
       IN [i \in 1..Len(d.cards) |-> CsvRow(d, n, d.cards[i])]
          \o CsvRows(Tail(all_boards))

\* lines 229-230: the loop is over, write the CSV, end normally
export_csv ==
  /\ pc = "main_loop"
  /\ bi > Len(active)
  /\ csv_rows' = CsvRows(all_data)
  /\ hist' = [hist EXCEPT !.csv_written = TRUE]
  /\ pc' = "done"
  /\ exit_status' = <<0>>
  /\ UNCHANGED <<envVars, exc, authVars, nreq, dirs, files, tgVars, mainVars,
                 boardVars, cardVars>>

\* the operator runs the script again over the same exports directory
Rerun ==
  /\ pc \in {"done", "crashed", "exited"}
  /\ run < MaxRuns
  /\ run' = run + 1
  /\ hist' = [NewHist EXCEPT !.files_at_start = DOMAIN files, !.dirs_at_start = dirs]
  /\ ProgramReset
  /\ UNCHANGED <<world, fsVars>>

Next ==
  \/ LoadEnv
  \/ FetchRequestToken
  \/ InputVerifier
  \/ FetchAccessToken
  \/ main_start
  \/ main_boards
  \/ trello_get_request
  \/ trello_get_retry
  \/ trello_get_raise
  \/ trello_get_return
  \/ export_board_start
  \/ export_board_cards
  \/ card_skip
  \/ card_classify
  \/ card_fallback
  \/ card_atts
  \/ att_prepare
  \/ att_done
  \/ download_file_exists
  \/ download_file_get
  \/ download_except
  \/ export_board_write_json
  \/ export_csv
  \/ Rerun

Spec == Init /\ [][Next]_vars

\* ------------------------------------------------------------------------
\* A provider that throttles without end: the board listing of main, with
\* 429 answered as often as the provider likes
\* ------------------------------------------------------------------------
\* the state of a first run with all four secrets set, at line 220
InitThrottle ==
  /\ world = <<BoardPoolSeq[1]>>
  /\ run = 1
  /\ CONSUMER_KEY = "key" /\ CONSUMER_SECRET = "secret"
  /\ ACCESS_TOKEN = "token" /\ TOKEN_SECRET = "tsecret"
  /\ hs = [NoHs EXCEPT !.env_token = "token", !.env_secret = "tsecret"]
  /\ exit_status = <<>> /\ exc = ""
  /\ nreq = 0
  /\ dirs = {<<>>} /\ files = <<>> /\ csv_rows = <<>>
  /\ hist = NewHist
  /\ tg = [endpoint |-> EndpointBoards, params |-> ParamsBoards,
           caller |-> "main", depth |-> 0]
  /\ resp = NoResp /\ trace = <<>> /\ tg_outcome = "pending" /\ ret = <<>>
  /\ pc = "trello_get"
  /\ boards = <<>> /\ active = <<>> /\ bi = 0 /\ all_data = <<>>
  /\ board = NoBoard /\ slug = <<>> /\ data = NoData /\ ci = 0
  /\ atts = <<>> /\ atts_with_images = <<>> /\ atts_with_urls = <<>> /\ ai = 0
  /\ dest = <<>>

trello_get_request_throttled == Request(RecursionLimit, {<<>>}, TraceWindow)

NextThrottle ==
  \/ trello_get_request_throttled
  \/ trello_get_retry
  \/ trello_get_recursion_error
  \/ trello_get_raise
  \/ trello_get_return

SpecThrottle == InitThrottle /\ [][NextThrottle]_vars

\* ------------------------------------------------------------------------
\* Properties
\* ------------------------------------------------------------------------
Range(seq) == { seq[i] : i \in 1..Len(seq) }
Ended == {"done", "crashed", "exited"}

TypeOK ==
  /\ pc \in {"load_env", "fetch_request_token", "input_verifier", "fetch_access_token",
             "main", "main_boards", "main_loop", "trello_get", "trello_get_response",
             "export_board_cards", "card_loop", "card_atts", "att_loop",
             "download_file", "download_except", "done", "crashed", "exited"}
  /\ run \in 1..MaxRuns
  /\ tg_outcome \in {"none", "pending", "returned", "raised"}

\* ids of the boards of a listing
Ids(bs) == { bs[i].id : i \in 1..Len(bs) }

\* number of occurrences of x in seq
Count(seq, x) == Cardinality({ i \in 1..Len(seq) : seq[i] = x })

\* the entry the specification expects for one attachment of a card
ExpectedEntry(board_name, card_id, att) ==
  IF is_trello_card_image(att)
  THEN PathStr(Dest(Slug(board_name), card_id, att))
  ELSE att.url

\* C1: in a run over several active boards, a non-429 HTTP error raised by a
\* fetch made while exporting a board that is not the last one aborts only
\* that board: once the run has ended, export_board has been called on every
\* active board and export_csv has been reached.
C1_BoardErrorAbortsOnlyThatBoard ==
  (pc \in Ended /\ \E i \in 1..(Len(active) - 1) : active[i].id \in hist.board_errors)
    => /\ Ids(active) \subseteq Range(hist.export_called)
       /\ hist.csv_written

\* C2: a failed download of a native attachment is a logged, non-fatal
\* failure: the run still writes the board's JSON and the CSV and exits
\* with status zero.
C2_DownloadFailureIsNotFatal ==
  (pc \in Ended /\ hist.dl_failed # {})
    => /\ exit_status = <<0>>
       /\ hist.csv_written
       /\ Ids(active) \subseteq hist.json_written

\* C3: when every fetch and download of a run succeeded, the run has produced,
\* for every active board, the board directory and in it the JSON document
\* board_<slug>_<board id>.json.
C3_EveryActiveBoardHasItsJson ==
  (pc \in Ended /\ bi >= 1 /\ hist.board_errors = {} /\ hist.dl_failed = {})
    => \A i \in 1..Len(active) :
         /\ BoardDir(Slug(active[i].name)) \in dirs
         /\ OutJson(Slug(active[i].name), active[i].id) \in DOMAIN files
         /\ active[i].id \in hist.json_written

\* C4: every card of a board that export_board returned has a
\* local_attachments field holding exactly one entry per attachment of the
\* card in the fetched payload (local path if native, URL if foreign).
C4_LocalAttachmentsRoundTrip ==
  \A k \in 1..Len(all_data) :
    LET d == all_data[k][1]
        fetched == BoardPayload([id |-> d.id, name |-> d.name, closed |-> d.closed])
    IN \A i \in 1..Len(fetched.cards) :
         LET card == d.cards[i]
             orig == fetched.cards[i].attachments
             expected == [j \in 1..Len(orig) |-> ExpectedEntry(d.name, card.id, orig[j])]
         IN /\ card.has_local_attachments
            /\ Len(card.local_attachments) = Len(orig)
            /\ \A e \in Range(expected) \cup Range(card.local_attachments) :
                 Count(card.local_attachments, e) = Count(expected, e)

\* C5: once the run has ended after the board listing was returned,
\* export_board has been called on exactly the non-closed boards of the
\* listing, no closed board was fetched or written, and as many boards were
\* exported as there are non-closed boards.
C5_ExactlyTheActiveBoardsAreExported ==
  (pc \in Ended /\ bi >= 1)
    => /\ \A i \in 1..Len(boards) :
            (boards[i].id \in Range(hist.export_called)) <=> ~boards[i].closed
       /\ \A i \in 1..Len(boards) :
            boards[i].closed =>
              /\ EndpointBoard(boards[i].id) \notin hist.fetched
              /\ boards[i].id \notin hist.json_written
       /\ Cardinality(Range(hist.export_called))
            = Cardinality({ i \in 1..Len(boards) : ~boards[i].closed })

\* indexes of the 429 responses in the trace of the current trello_get call
Throttled == { i \in 1..Len(trace) : trace[i].ev = "response" /\ trace[i].n = 429 }

\* indexes of the responses with a non-success status other than 429
Failed ==
  { i \in 1..Len(trace) :
      trace[i].ev = "response" /\ trace[i].n # 429 /\ trace[i].n >= 400 }

C7_OtherErrorRaisesImmediately ==
  \A i \in Failed :
    /\ i = Len(trace)
    /\ trace[i - 1].n = nreq
    /\ pc # "trello_get_response" =>
         (tg_outcome = "raised" /\ exc = "HTTPError" /\ pc = "crashed")

\* a call that raised on a 500 answered to its first request
C7_Witness ==
  /\ tg_outcome = "raised"
  /\ Len(trace) = 2
  /\ trace[2].n = 500

\* C8: download_file called with an existing destination issues no request
\* and leaves the filesystem unchanged; hence no run issues a download
\* request for a destination that existed when the run started.
C8_ExistingDestinationIsNotDownloaded ==
  /\ [][ (pc = "download_file" /\ Exists(dest, dirs, files))
           => (nreq' = nreq /\ files' = files /\ dirs' = dirs) ]_vars
  /\ [](hist.dl_requested \cap hist.files_at_start = {})

\* a second run found a file that the first run downloaded, and skipped it
C8_Witness ==
  /\ run = 2
  /\ \E d \in hist.dl_skipped \cap hist.files_at_start : files[d] = "complete"
  /\ hist.dl_requested = {}
  /\ pc = "done"

\* the host of the URL is the provider's domain or a subdomain of it
HostIsProvider(url) ==
  LET host == urlparse(url).netloc
      n == Len(s_trello_com)
  IN \/ host = s_trello_com
     \/ /\ Len(host) > n
        /\ SubSeq(host, Len(host) - n, Len(host)) = <<".">> \o s_trello_com

\* the path of the URL contains a /cards/ segment
PathHasCards(url) == Contains(urlparse(url).path, s_cards_seg)

\* C9: an attachment with a URL is classified as native iff the host of its
\* URL belongs to trello.com and the path of its URL contains /cards/; every
\* other attachment with a URL is classified as foreign.
C9_NativeIffProviderHostAndCardsPath ==
  \A i \in 1..Len(atts) :
    atts[i].url # <<>> =>
      /\ (atts[i] \in Range(atts_with_images))
           <=> (HostIsProvider(atts[i].url) /\ PathHasCards(atts[i].url))
      /\ (atts[i] \in Range(atts_with_urls))
           <=> ~(HostIsProvider(atts[i].url) /\ PathHasCards(atts[i].url))

\* C10: when the consumer key or the consumer secret is absent, the process
\* has exited with status 1 without any network request and without creating
\* any file or directory.
C10_MissingConsumerCredentialsExitFirst ==
  (pc # "load_env" /\ (CONSUMER_KEY \in {None, ""} \/ CONSUMER_SECRET \in {None, ""}))
    => /\ pc = "exited"
       /\ exit_status = <<1>>
       /\ nreq = 0
       /\ hs.steps = <<>>
       /\ dirs = hist.dirs_at_start
       /\ DOMAIN files = hist.files_at_start

\* the key is set and the secret is not: the process has exited
C10_Witness ==
  /\ pc = "exited"
  /\ CONSUMER_KEY = "key"
  /\ CONSUMER_SECRET \in {None, ""}
  /\ exit_status = <<1>>

HandshakeOrder == <<"request_token", "verifier", "access_token">>

\* C11: the handshake runs iff the access token or the token secret is absent
\* at start; its steps happen once each in the order request token, verifier
\* input, access-token exchange; the exchange is signed with the request
\* token of step 1 and the verifier of step 2; no data fetch is issued before
\* the access-token pair is set.
C11_HandshakeIffTokensAbsentLinearOrder ==
  pc \notin {"load_env", "exited"} =>
    /\ (hs.steps # <<>> \/ pc = "fetch_request_token")
         <=> (hs.env_token \in {None, ""} \/ hs.env_secret \in {None, ""})
    /\ Len(hs.steps) <= 3
    /\ hs.steps = SubSeq(HandshakeOrder, 1, Len(hs.steps))
    /\ Len(hs.steps) = 3 =>
         /\ hs.exchanged = <<"rtoken", hs.verifier>>
         /\ hs.verifier \in {"pin", "badpin"}
    /\ Len(hs.steps) < 3 => hs.exchanged = <<>>
    /\ (hist.fetched # {} \/ pc = "main") =>
         /\ ACCESS_TOKEN \notin {None, ""}
         /\ TOKEN_SECRET \notin {None, ""}
         /\ hs.steps \in {<<>>, HandshakeOrder}

\* only the token was in the environment; the handshake ran in full and the
\* board listing was then requested
C11_Witness ==
  /\ hs.env_token = "token" /\ hs.env_secret = None
  /\ hs.steps = HandshakeOrder
  /\ hs.exchanged = <<"rtoken", "pin">>
  /\ EndpointBoards \in hist.fetched

\* C12: when the provider rejects the request-token step or the access-token
\* exchange the process ends there: the rejected step is the last one and was
\* attempted once, ACCESS_TOKEN and TOKEN_SECRET hold what they held at start
\* (not both set), and no data fetch, export or file creation has happened.
C12_RejectedHandshakeKeepsEnvTokens ==
  hs.rejected # "" =>
    /\ pc = "crashed" /\ exc = "TokenRequestDenied" /\ exit_status = <<1>>
    /\ hs.steps[Len(hs.steps)] = hs.rejected
    /\ hs.steps = SubSeq(HandshakeOrder, 1, Len(hs.steps))
    /\ nreq = (IF hs.rejected = "request_token" THEN 1 ELSE 2)
    /\ ACCESS_TOKEN = hs.env_token /\ TOKEN_SECRET = hs.env_secret
    /\ (ACCESS_TOKEN \in {None, ""} \/ TOKEN_SECRET \in {None, ""})
    /\ hist.fetched = {} /\ hist.export_called = <<>> /\ ~hist.csv_written
    /\ dirs = hist.dirs_at_start /\ DOMAIN files = hist.files_at_start

\* the exchange was rejected after a request token and a verifier were obtained
C12_Witness ==
  /\ hs.rejected = "access_token"
  /\ hs.steps = HandshakeOrder
  /\ pc = "crashed"

\* C12 as stated: after a rejected step ACCESS_TOKEN and TOKEN_SECRET are
\* both unset (and the process has ended without fetch or export).
C12_RejectedHandshakeLeavesTokensUnset ==
  hs.rejected # "" =>
    /\ pc = "crashed" /\ exc = "TokenRequestDenied"
    /\ hs.steps[Len(hs.steps)] = hs.rejected
    /\ hist.fetched = {} /\ hist.export_called = <<>>
    /\ ACCESS_TOKEN \in {None, ""} /\ TOKEN_SECRET \in {None, ""}

\* the segment after the first 'attachments' segment of a path, when there
\* is one, as a set of at most one element
SegmentAfterAttachments(parts) ==
  { parts[i + 1] : i \in { k \in 1..(Len(parts) - 1) :
                             /\ parts[k] = s_attachments
                             /\ \A j \in 1..(k - 1) : parts[j] # s_attachments } }

\* C13: when a native attachment reaches download_file, the directory made
\* for it, under which its destination lies, is <card id>_<attachment id>, where the attachment id is the path
\* segment that follows 'attachments', or 'unknown' when the path has no
\* 'attachments' segment or ends with it; no error has been raised.
C13_AttachmentIdOrUnknown ==
  pc = "download_file" =>
    LET att == atts_with_images[ai]
        after == SegmentAfterAttachments(Split(urlparse(att.url).path, "/"))
        id == IF after = {} THEN s_unknown ELSE CHOOSE x \in after : TRUE
        att_dir == AttachmentsDir(slug) \o <<data.cards[ci].id \o <<"_">> \o id>>
    IN /\ att_dir \in dirs
       /\ Len(dest) >= Len(att_dir) /\ SubSeq(dest, 1, Len(att_dir)) = att_dir
       /\ exc = "" /\ exit_status = <<>>

\* the attachment whose path ends with 'attachments' got the id 'unknown'
C13_Witness ==
  /\ pc = "download_file"
  /\ atts_with_images[ai] = AttLastSeg
  /\ AttachmentsDir(slug) \o <<data.cards[ci].id \o <<"_">> \o s_unknown>> \in dirs
  /\ dest = AttachmentsDir(slug) \o <<data.cards[ci].id \o <<"_">> \o s_unknown, <<"q">>>>

\* total number of cards of a sequence of (data, board_name) pairs
RECURSIVE TotalCards(_)
TotalCards(all_boards) ==
  IF all_boards = <<>> THEN 0
  ELSE Len(Head(all_boards)[1].cards) + TotalCards(Tail(all_boards))

\* C14: once export_csv has written the file, it holds one row per card of
\* every exported board, in order (the row count is the total number of
\* cards), and the attachments column of each row is the ';'-join of the
\* card's local_attachments as export_board left them.
C14_OneCsvRowPerCard ==
  hist.csv_written =>
    /\ Len(csv_rows) = TotalCards(all_data)
    /\ \A k \in 1..Len(all_data) :
         LET d == all_data[k][1]
             off == TotalCards(SubSeq(all_data, 1, k - 1))
         IN \A i \in 1..Len(d.cards) :
              /\ csv_rows[off + i].board = all_data[k][2]
              /\ csv_rows[off + i].item = d.cards[i].name
              /\ csv_rows[off + i].attachments
                   = Join(d.cards[i].local_attachments, <<";">>)

\* two boards were exported and the file holds their five cards, one of them
\* with two attachment references
C14_Witness ==
  /\ hist.csv_written
  /\ Len(all_data) = 2
  /\ Len(csv_rows) = 5
  /\ \E i \in 1..Len(csv_rows) : Contains(csv_rows[i].attachments, <<";">>)

\* C15: trello_get has no attempt cap: a call only ends on a response whose
\* status is not 429, however many 429 came before, and a call that returned
\* after n 429 responses (tg.depth of them) issued n + 1 requests and
\* returned the parsed body.
C15_NoAttemptCap ==
  /\ tg_outcome \in {"returned", "raised"} => ~IsRateLimited(resp.status)
  /\ tg_outcome = "returned" =>
       /\ nreq = tg.depth + 1
       /\ ret = Body(tg.endpoint)

\* the attachment's URL points to a host outside the provider's domain
IsForeignHost(att) == att.url # <<>> /\ ~HostIsProvider(att.url)

\* C16: no download request is issued for an attachment whose URL points to
\* a host outside trello.com, and every such attachment of a card that was
\* processed is in the card's local_attachments as its URL, never as a path.
C16_ForeignNeverDownloaded ==
  /\ [][download_file_get => ~IsForeignHost(atts_with_images[ai])]_vars
  /\ [](\A k \in 1..Len(data.cards) :
          (k < ci /\ ~SkippedByDebug(data.cards[k])) =>
            \A att \in Range(data.cards[k].attachments) :
              IsForeignHost(att) =>
                /\ att.url \in Range(data.cards[k].local_attachments)
                /\ PathStr(Dest(slug, data.cards[k].id, att))
                     \notin Range(data.cards[k].local_attachments))

\* the (card id, attachment) pairs of the current board that the loop has
\* reached before the attachment it is at, skipped cards left out
EarlierNative ==
  UNION { { <<data.cards[k].id, att>> :
              att \in { x \in Range(data.cards[k].attachments) : is_trello_card_image(x) } } :
            k \in { i \in 1..(ci - 1) : ~SkippedByDebug(data.cards[i]) } }
  \cup { <<data.cards[ci].id, atts_with_images[j]>> : j \in 1..(ai - 1) }

\* C17: the destination computed for a native attachment differs from the
\* destination of every other native attachment of the run's board: of those
\* that differ from it in card id or attachment id, and of every attachment
\* distinct from it.
C17_DestinationsAreUnique ==
  pc = "download_file" =>
    \A p \in EarlierNative :
      LET card_id == data.cards[ci].id
          att == atts_with_images[ai]
      IN /\ (p[1] # card_id \/ AttachmentId(p[2].url) # AttachmentId(att.url))
              => Dest(slug, p[1], p[2]) # dest
         /\ p # <<card_id, att>> => Dest(slug, p[1], p[2]) # dest

\* C18: whenever the local path of a native attachment is recorded in its
\* card's local_attachments, the file at that path exists and holds the
\* complete body, in every run over the same exports directory.
C18_RecordedPathHoldsCompleteBody ==
  \A k \in 1..Len(data.cards) :
    \A att \in Range(data.cards[k].attachments) :
      LET d == Dest(slug, data.cards[k].id, att)
      IN (is_trello_card_image(att)
          /\ PathStr(d) \in Range(data.cards[k].local_attachments))
           => (d \in DOMAIN files /\ files[d] = "complete")

\* the path the JSON document of the i-th exported board was written to
JsonPathOf(i) == OutJson(Slug(all_data[i][1].name), all_data[i][1].id)

\* C19: the JSON documents of two exported boards with distinct ids are at
\* distinct paths, and the file of every exported board still holds that
\* board's document, also when two board names give the same slug.
C19_DistinctBoardsDistinctJson ==
  /\ \A i, j \in 1..Len(all_data) :
       all_data[i][1].id # all_data[j][1].id => JsonPathOf(i) # JsonPathOf(j)
  /\ \A i \in 1..Len(all_data) :
       /\ JsonPathOf(i) \in DOMAIN files
       /\ files[JsonPathOf(i)] = all_data[i][1].id

\* two boards with distinct ids and the same slug were exported in one run
C19_Witness ==
  \E i, j \in 1..Len(all_data) :
    /\ all_data[i][1].id # all_data[j][1].id
    /\ all_data[i][1].name # all_data[j][1].name
    /\ Slug(all_data[i][1].name) = Slug(all_data[j][1].name)
====
